---- MODULE Spec2Model ----
(***************************************************************************)
(* Model of dashboard/dashboard.py: the script that loads two CSV tables,  *)
(* parses their timestamp columns, sorts the fact table, restricts it to a *)
(* date window picked in the sidebar and derives four relations from it    *)
(* (daily series, category ranking, customers by state, RFM).              *)
(*                                                                         *)
(* Time is counted in ticks, TicksPerDay ticks to a calendar day; tick     *)
(* d * TicksPerDay is midnight of day d.  A cell of a timestamp column is   *)
(* a record: the text read from the CSV (kind "str"), a parsed timestamp    *)
(* (kind "ts") or pandas' NaT (kind "NaT").                                 *)
(***************************************************************************)
EXTENDS Integers, Sequences, FiniteSets, TLC

VARIABLES all_df, orders_df, start_date, end_date, main_df,
          daily_orders_df, sum_order_items_df, bystate_df, rfm_df, pc, done

vars == <<all_df, orders_df, start_date, end_date, main_df,
          daily_orders_df, sum_order_items_df, bystate_df, rfm_df, pc, done>>

(***************************************************************************)
(* Bounds of the model.                                                    *)
(***************************************************************************)
MaxRows == 2
MaxOrders == 1
MaxDay == 2
TicksPerDay == 2

(***************************************************************************)
(* Column values.  The three key columns are listed in ascending order,    *)
(* the order in which groupby (sort=True) emits its groups.  NaN is the    *)
(* missing value of the category column.                                   *)
(***************************************************************************)
NaN == "NaN"
CategoryOrder == <<"home", "tech">>
StateOrder == <<"RJ", "SP">>
CustomerOrder == <<"u", "v">>
OrderIds == {"A", "B"}

Range(s) == {s[i] : i \in DOMAIN s}

NaT == [kind |-> "NaT", v |-> 0]
Timestamp(t) == [kind |-> "ts", v |-> t]
Text(t) == [kind |-> "str", v |-> t]

\* The texts a CSV cell can hold: one per tick, and one (v = -1) that is no date.
Ticks == 0 .. ((MaxDay + 1) * TicksPerDay - 1)
ValidTexts == {Text(t) : t \in Ticks}
RawTexts == ValidTexts \cup {Text(-1)}

\* pd.to_datetime(column, errors='coerce') on one cell.
to_datetime(c) ==
    IF c.kind = "str"
    THEN IF c.v >= 0 THEN Timestamp(c.v) ELSE NaT
    ELSE c

\* Timestamp.date() / resample(rule='D'): the calendar day of a tick.
DayOf(t) == t \div TicksPerDay

\* pd.to_datetime(a date): midnight of that day.
Midnight(d) == d * TicksPerDay

notna(c) == c.kind = "ts"

SeqsUpTo(S, n) == UNION {[1 .. k -> S] : k \in 0 .. n}

\* Series.sum() of a column of numbers.
RECURSIVE Sum(_)
Sum(s) == IF s = <<>> THEN 0 ELSE Head(s) + Sum(Tail(s))

SetMax(S) == CHOOSE m \in S : \A x \in S : x <= m
SetMin(S) == CHOOSE m \in S : \A x \in S : m <= x

(***************************************************************************)
(* Lines 57-61: every datetime column of both tables is parsed.            *)
(***************************************************************************)
ParseColumn(df) ==
    [i \in DOMAIN df |->
        [df[i] EXCEPT !.order_purchase_timestamp = to_datetime(@)]]

(***************************************************************************)
(* Lines 64-65: sort_values(by="order_purchase_timestamp"), NaT last.      *)
(* Rows with equal timestamps keep their order (numpy sorts short arrays   *)
(* by insertion); no formula below depends on the order of such rows.      *)
(***************************************************************************)
Before(a, b) ==
    \/ notna(a) /\ ~notna(b)
    \/ notna(a) /\ notna(b) /\ a.v < b.v

RECURSIVE SortByTimestamp(_)
SortByTimestamp(df) ==
    IF df = <<>> THEN <<>>
    ELSE LET h == Head(df)
             rest == SortByTimestamp(Tail(df))
             k == Cardinality({i \in DOMAIN rest :
                     Before(rest[i].order_purchase_timestamp,
                            h.order_purchase_timestamp)})
         IN SubSeq(rest, 1, k) \o <<h>> \o SubSeq(rest, k + 1, Len(rest))

\* Lines 68-69: min() / max() of the column skip NaT.
KnownTicks(df) ==
    {df[i].order_purchase_timestamp.v : i \in
        {j \in DOMAIN df : notna(df[j].order_purchase_timestamp)}}
min_date(df) == DayOf(SetMin(KnownTicks(df)))
max_date(df) == DayOf(SetMax(KnownTicks(df)))

(***************************************************************************)
(* Lines 77-78: the boolean mask of the date window.  A comparison with    *)
(* NaT is False, so a row without a timestamp is never selected.           *)
(***************************************************************************)
InWindow(row, start, end) ==
    /\ notna(row.order_purchase_timestamp)
    /\ row.order_purchase_timestamp.v >= Midnight(start)
    /\ row.order_purchase_timestamp.v <= Midnight(end)

FilterWindow(df, start, end) ==
    SelectSeq(df, LAMBDA row : InWindow(row, start, end))

(***************************************************************************)
(* Helpers of the aggregations.                                            *)
(***************************************************************************)
\* df[name]: one column of a relation.
Column(df, name) == [i \in DOMAIN df |-> df[i][name]]

\* The rows of df whose column `name` holds `key`: one group of a groupby.
GroupRows(df, name, key) == SelectSeq(df, LAMBDA row : row[name] = key)

\* groupby(name) with its defaults (sort=True, dropna=True): the keys present
\* in df, ascending; a missing key (NaN) is in no `order` and forms no group.
GroupKeys(df, name, order) ==
    SelectSeq(order, LAMBDA key : \E i \in DOMAIN df : df[i][name] = key)

\* The aggregation "nunique": the number of distinct values of a column.
nunique(col) == Cardinality(Range(col))

\* The aggregation "max" of a timestamp column: NaT is skipped, and NaT is
\* the result when nothing is left.
MaxTimestamp(col) ==
    LET known == {col[i].v : i \in {j \in DOMAIN col : notna(col[j])}}
    IN IF known = {} THEN NaT ELSE Timestamp(SetMax(known))

(***************************************************************************)
(* create_daily_orders_df, lines 9-21.  resample(rule='D') makes one bin    *)
(* per calendar day from the first to the last day that has a row; a bin    *)
(* without rows aggregates to nunique 0 and sum 0.                          *)
(***************************************************************************)
DayRows(df, d) ==
    SelectSeq(df, LAMBDA row : /\ notna(row.order_purchase_timestamp)
                               /\ DayOf(row.order_purchase_timestamp.v) = d)

\* The bins of a groupby on the date: the days that have a row, ascending.
ResampleBins_activeDays(df) ==
    SelectSeq([i \in 1 .. (MaxDay + 1) |-> i - 1],
              LAMBDA d : \E t \in KnownTicks(df) : DayOf(t) = d)

ResampleBins(df) ==
    IF KnownTicks(df) = {} THEN <<>>
    ELSE LET lo == DayOf(SetMin(KnownTicks(df)))
             hi == DayOf(SetMax(KnownTicks(df)))
         IN [i \in 1 .. (hi - lo + 1) |-> lo + i - 1]

\* "count" in place of "nunique": the lines of the day.
DailyOrderCount_count(rows) == Len(rows)

DailyOrderCount(rows) == nunique(Column(rows, "order_id"))

create_daily_orders_df(df) ==
    LET bins == ResampleBins(df)
    IN [i \in DOMAIN bins |->
          [order_purchase_timestamp |-> bins[i],
           order_count |-> DailyOrderCount(DayRows(df, bins[i])),
           revenue |-> Sum(Column(DayRows(df, bins[i]), "price"))]]

(***************************************************************************)
(* create_sum_order_items_df, lines 24-26: groupby, count, sort_values      *)
(* (ascending=False).  pandas sorts descending by reversing, sorting        *)
(* ascending and reversing again, so on the short arrays of this model      *)
(* (numpy sorts them by insertion) equal counts keep the order of the       *)
(* groups, which is ascending by category name.                             *)
(***************************************************************************)
\* sort_values() with its default, ascending=True.
RECURSIVE SortValuesDescending_ascending(_)
SortValuesDescending_ascending(s) ==
    IF s = <<>> THEN <<>>
    ELSE LET h == Head(s)
             rest == SortValuesDescending_ascending(Tail(s))
             k == Cardinality({i \in DOMAIN rest : rest[i].order_id < h.order_id})
         IN SubSeq(rest, 1, k) \o <<h>> \o SubSeq(rest, k + 1, Len(rest))

RECURSIVE SortValuesDescending(_)
SortValuesDescending(s) ==
    IF s = <<>> THEN <<>>
    ELSE LET h == Head(s)
             rest == SortValuesDescending(Tail(s))
             k == Cardinality({i \in DOMAIN rest : rest[i].order_id > h.order_id})
         IN SubSeq(rest, 1, k) \o <<h>> \o SubSeq(rest, k + 1, Len(rest))

CategoryGroups(df) == GroupKeys(df, "product_category_name_english", CategoryOrder)

create_sum_order_items_df(df) ==
    LET keys == CategoryGroups(df)
    IN SortValuesDescending(
          [g \in DOMAIN keys |->
              [product_category_name_english |-> keys[g],
               order_id |-> Len(GroupRows(df, "product_category_name_english",
                                          keys[g]))]])

(***************************************************************************)
(* create_bystate_df, lines 29-32.                                         *)
(***************************************************************************)
\* "count" in place of "nunique": the lines of the state.
StateCustomerCount_count(rows) == Len(rows)

StateCustomerCount(rows) == nunique(Column(rows, "customer_id"))

create_bystate_df(df) ==
    LET keys == GroupKeys(df, "customer_state", StateOrder)
    IN [g \in DOMAIN keys |->
          [customer_state |-> keys[g],
           customer_count |->
               StateCustomerCount(GroupRows(df, "customer_state", keys[g]))]]

(***************************************************************************)
(* create_rfm_df, lines 35-51.  The difference of two timestamps is NaT     *)
(* when either is NaT, and .dt.days of it is NaN; .dt.days of a known       *)
(* difference is its floor in whole days, negative when it is negative.     *)
(***************************************************************************)
\* Line 48: orders_df["order_purchase_timestamp"].max().
recent_date(orders) == MaxTimestamp(Column(orders, "order_purchase_timestamp"))

\* Line 49 for one record.
Recency(recent, last) ==
    IF notna(recent) /\ notna(last)
    THEN [kind |-> "days", v |-> (recent.v - last.v) \div TicksPerDay]
    ELSE [kind |-> "NaN", v |-> 0]

\* Lines 36-41 and 49: one record per customer of df, recency against `recent`.
RfmRecords(df, recent) ==
    LET keys == GroupKeys(df, "customer_id", CustomerOrder)
    IN [g \in DOMAIN keys |->
          LET rows == GroupRows(df, "customer_id", keys[g])
              last == MaxTimestamp(Column(rows, "order_purchase_timestamp"))
          IN [customer_id |-> keys[g],
              max_order_timestamp |-> last,
              frequency |-> nunique(Column(rows, "order_id")),
              monetary |-> Sum(Column(rows, "price")),
              recency |-> Recency(recent, last)]]

\* The reference a helper would use if it took it from the relation it groups.
create_rfm_df_filteredReference(df, orders) ==
    RfmRecords(df, MaxTimestamp(Column(df, "order_purchase_timestamp")))

create_rfm_df(df, orders) == RfmRecords(df, recent_date(orders))

\* An assignment that parses the column with a format it does not have.
RfmOrdersAfter_coerced(orders) ==
    [i \in DOMAIN orders |-> [orders[i] EXCEPT !.order_purchase_timestamp = NaT]]

\* Line 45: create_rfm_df assigns the parsed column back into the orders_df
\* it was given.  The column was parsed at line 61, so no cell is text here.
RfmOrdersAfter(orders) == ParseColumn(orders)

(***************************************************************************)
(* The script, top to bottom.                                              *)
(***************************************************************************)
Transforms == {"daily", "category", "state", "rfm"}

FactRows(orders, customers, states, categories, texts, prices) ==
    [order_id : orders, customer_id : customers, customer_state : states,
     product_category_name_english : categories,
     order_purchase_timestamp : texts, price : prices]

OrderRows(texts) == [order_purchase_timestamp : texts]

\* Lines 54-55: the two tables as read_csv returns them, timestamps still
\* text.  The date picker of line 72 needs a first and a last date, so the
\* fact table holds at least one timestamp that parses.
ReadCsv(rows, n, orders) ==
    /\ all_df \in {df \in SeqsUpTo(rows, n) :
                     \E i \in DOMAIN df : df[i].order_purchase_timestamp.v >= 0}
    /\ orders_df \in SeqsUpTo(orders, MaxOrders)
    /\ start_date = 0
    /\ end_date = 0
    /\ main_df = <<>>
    /\ daily_orders_df = <<>>
    /\ sum_order_items_df = <<>>
    /\ bystate_df = <<>>
    /\ rfm_df = <<>>
    /\ pc = "read_csv"
    /\ done = {}

\* Lines 57-61.
ParseDatetimes ==
    /\ pc = "read_csv"
    /\ all_df' = ParseColumn(all_df)
    /\ orders_df' = ParseColumn(orders_df)
    /\ pc' = "parsed"
    /\ UNCHANGED <<start_date, end_date, main_df, daily_orders_df,
                   sum_order_items_df, bystate_df, rfm_df, done>>

\* Lines 63-65.
SortAllDf ==
    /\ pc = "parsed"
    /\ all_df' = SortByTimestamp(all_df)
    /\ pc' = "sorted"
    /\ UNCHANGED <<orders_df, start_date, end_date, main_df, daily_orders_df,
                   sum_order_items_df, bystate_df, rfm_df, done>>

\* Lines 67-74: the sidebar returns a range of dates between the first and
\* the last day of the fact table.
DateInput ==
    /\ pc = "sorted"
    /\ \E s \in min_date(all_df) .. max_date(all_df) :
         \E e \in s .. max_date(all_df) :
            /\ start_date' = s
            /\ end_date' = e
    /\ pc' = "picked"
    /\ UNCHANGED <<all_df, orders_df, main_df, daily_orders_df,
                   sum_order_items_df, bystate_df, rfm_df, done>>

\* Lines 76-78.
FilterMainDf ==
    /\ pc = "picked"
    /\ main_df' = FilterWindow(all_df, start_date, end_date)
    /\ pc' = "filtered"
    /\ UNCHANGED <<all_df, orders_df, start_date, end_date, daily_orders_df,
                   sum_order_items_df, bystate_df, rfm_df, done>>

\* Lines 80-84 call the four helpers one after the other; none reads what
\* another returns, and the actions below allow them in every order.
CreateDailyOrders ==
    /\ pc = "filtered"
    /\ "daily" \notin done
    /\ daily_orders_df' = create_daily_orders_df(main_df)
    /\ done' = done \cup {"daily"}
    /\ UNCHANGED <<all_df, orders_df, start_date, end_date, main_df,
                   sum_order_items_df, bystate_df, rfm_df, pc>>

CreateSumOrderItems ==
    /\ pc = "filtered"
    /\ "category" \notin done
    /\ sum_order_items_df' = create_sum_order_items_df(main_df)
    /\ done' = done \cup {"category"}
    /\ UNCHANGED <<all_df, orders_df, start_date, end_date, main_df,
                   daily_orders_df, bystate_df, rfm_df, pc>>

CreateByState ==
    /\ pc = "filtered"
    /\ "state" \notin done
    /\ bystate_df' = create_bystate_df(main_df)
    /\ done' = done \cup {"state"}
    /\ UNCHANGED <<all_df, orders_df, start_date, end_date, main_df,
                   daily_orders_df, sum_order_items_df, rfm_df, pc>>

CreateRfm ==
    /\ pc = "filtered"
    /\ "rfm" \notin done
    /\ rfm_df' = create_rfm_df(main_df, orders_df)
    /\ orders_df' = RfmOrdersAfter(orders_df)
    /\ done' = done \cup {"rfm"}
    /\ UNCHANGED <<all_df, start_date, end_date, main_df,
                   daily_orders_df, sum_order_items_df, bystate_df, pc>>

Next ==
    \/ ParseDatetimes
    \/ SortAllDf
    \/ DateInput
    \/ FilterMainDf
    \/ CreateDailyOrders
    \/ CreateSumOrderItems
    \/ CreateByState
    \/ CreateRfm

(***************************************************************************)
(* Specifications.  They differ in the tables read: each varies the         *)
(* columns its properties depend on and holds the others fixed.             *)
(***************************************************************************)
\* Timestamps of every kind, text that does not parse included.
InitWindow ==
    ReadCsv(FactRows({"A"}, {"u"}, {"SP"}, {"tech"}, RawTexts, {10}),
            MaxRows, OrderRows({Text(0)}))

\* Orders and the days their lines fall on.
InitDaily ==
    ReadCsv(FactRows(OrderIds, {"u"}, {"SP"}, {"tech"}, ValidTexts, {10}),
            MaxRows, OrderRows({Text(0)}))

\* Categories, a missing one included; one more line than MaxRows, so that
\* two categories can differ in their counts.
InitCategory ==
    ReadCsv(FactRows({"A"}, {"u"}, {"SP"}, Range(CategoryOrder) \cup {NaN},
                     {Text(0)}, {10}),
            MaxRows + 1, OrderRows({Text(0)}))

\* Customers and states.
InitState ==
    ReadCsv(FactRows({"A"}, Range(CustomerOrder), Range(StateOrder), {"tech"},
                     {Text(0)}, {10}),
            MaxRows + 1, OrderRows({Text(0)}))

\* Customers, their timestamps, and the orders table, on the first two days:
\* the reference of recency may lie before, on or after a last purchase.
TwoDayTexts == {Text(t) : t \in {u \in Ticks : DayOf(u) <= 1}}

InitRfm ==
    ReadCsv(FactRows({"A"}, Range(CustomerOrder), {"SP"}, {"tech"},
                     TwoDayTexts, {10}),
            MaxRows, OrderRows(TwoDayTexts \cup {Text(-1)}))

Spec == InitWindow /\ [][Next]_vars
SpecDaily == InitDaily /\ [][Next]_vars
SpecCategory == InitCategory /\ [][Next]_vars
SpecState == InitState /\ [][Next]_vars
SpecRfm == InitRfm /\ [][Next]_vars

(***************************************************************************)
(* Properties.                                                             *)
(***************************************************************************)
\* The rows of df purchased on a calendar day from start to end, both included.
DayWindow(df, start, end) ==
    SelectSeq(df, LAMBDA row :
        /\ notna(row.order_purchase_timestamp)
        /\ start <= DayOf(row.order_purchase_timestamp.v)
        /\ DayOf(row.order_purchase_timestamp.v) <= end)

\* C1: the window filter is inclusive on both ends at day granularity: the
\* filtered relation holds exactly the dated rows whose calendar day d has
\* start <= d <= end, whatever their time of day.
C1_WindowInclusiveByDay ==
    pc = "filtered" => main_df = DayWindow(all_df, start_date, end_date)

\* The days of the rows of df, and the (order, day) pairs among them.
ActiveDays(df) == {DayOf(t) : t \in KnownTicks(df)}
OrderDays(df) ==
    {<<df[i].order_id, DayOf(df[i].order_purchase_timestamp.v)>> :
        i \in {j \in DOMAIN df : notna(df[j].order_purchase_timestamp)}}
SpansDays(df) ==
    \E i, j \in DOMAIN df :
        /\ df[i].order_id = df[j].order_id
        /\ DayOf(df[i].order_purchase_timestamp.v)
             # DayOf(df[j].order_purchase_timestamp.v)
TotalOrders == Sum(Column(daily_orders_df, "order_count"))

\* C2 as stated: the order_count column sums to the number of distinct
\* order_id of the filtered relation, also when an order has lines on more
\* than one day.
C2_SumIsDistinctOrders ==
    "daily" \in done => TotalOrders = nunique(Column(main_df, "order_id"))

\* C2 amended: the order_count column sums to the number of distinct
\* (order_id, calendar day) pairs of the filtered relation; that is the number
\* of distinct order_id exactly when no order has lines on more than one day,
\* and more otherwise.
C2_SumIsOrdersPerDay ==
    "daily" \in done =>
        /\ TotalOrders = Cardinality(OrderDays(main_df))
        /\ TotalOrders >= nunique(Column(main_df, "order_id"))
        /\ (TotalOrders = nunique(Column(main_df, "order_id")))
              <=> ~SpansDays(main_df)

C2_Witness == "daily" \in done /\ SpansDays(main_df)

\* C3: the per-category counts sum to the number of rows of the filtered
\* relation, a row without a category being counted in a bucket of its own.
C3_CountsSumToRows ==
    "category" \in done =>
        Sum(Column(sum_order_items_df, "order_id")) = Len(main_df)

\* The last purchase of a customer in the filtered relation, and the latest
\* purchase of the whole orders table, in ticks.
LastPurchase(df, customer) ==
    SetMax({df[i].order_purchase_timestamp.v :
              i \in {j \in DOMAIN df : df[j].customer_id = customer}})
Reference(orders) ==
    SetMax({orders[i].order_purchase_timestamp.v :
              i \in {j \in DOMAIN orders : notna(orders[j].order_purchase_timestamp)}})
HasReference(orders) ==
    \E i \in DOMAIN orders : notna(orders[i].order_purchase_timestamp)

DailyDates == Column(daily_orders_df, "order_purchase_timestamp")
Ascending(s) == \A i, j \in DOMAIN s : i < j => s[i] < s[j]

MultiState(df) ==
    \E i, j \in DOMAIN df :
        /\ df[i].customer_id = df[j].customer_id
        /\ df[i].customer_state # df[j].customer_state
TotalCustomers == Sum(Column(bystate_df, "customer_count"))

\* C6: the customer_count column sums to at least the number of distinct
\* customers of the filtered relation, and to exactly that number when and
\* only when no customer has lines in more than one state.
C6_StateSumBoundsCustomers ==
    "state" \in done =>
        /\ TotalCustomers >= nunique(Column(main_df, "customer_id"))
        /\ (TotalCustomers = nunique(Column(main_df, "customer_id")))
              <=> ~MultiState(main_df)

C6_Witness ==
    /\ "state" \in done
    /\ MultiState(main_df)
    /\ TotalCustomers > nunique(Column(main_df, "customer_id"))

SortedDescending(s) ==
    \A i, j \in DOMAIN s : i < j => s[i].order_id >= s[j].order_id
FirstSeen(df, category) ==
    SetMin({i \in DOMAIN df : df[i].product_category_name_english = category})

Undated(df) == SelectSeq(df, LAMBDA row : ~notna(row.order_purchase_timestamp))

\* C8: a row whose timestamp did not parse is still counted in the category
\* ranking, in the regional distribution and in the RFM record of its customer
\* (frequency and monetary), next to the rows of the window.
C8_UndatedRowsStillGrouped ==
    \A i \in DOMAIN Undated(all_df) :
        LET row == Undated(all_df)[i]
            counted == main_df \o Undated(all_df)
        IN /\ "category" \in done =>
                \E j \in DOMAIN sum_order_items_df :
                    /\ sum_order_items_df[j].product_category_name_english
                          = row.product_category_name_english
                    /\ sum_order_items_df[j].order_id
                          = Len(GroupRows(counted, "product_category_name_english",
                                          row.product_category_name_english))
           /\ "state" \in done =>
                \E j \in DOMAIN bystate_df :
                    bystate_df[j].customer_state = row.customer_state
           /\ "rfm" \in done =>
                \E j \in DOMAIN rfm_df :
                    /\ rfm_df[j].customer_id = row.customer_id
                    /\ rfm_df[j].monetary
                          = Sum(Column(GroupRows(counted, "customer_id",
                                                 row.customer_id), "price"))

\* C9: with an empty orders table create_rfm_df fails: it never returns a
\* relation of RFM records.
C9_EmptyOrdersAbortRfm ==
    Len(orders_df) = 0 => "rfm" \notin done

\* C10: no call of the four helpers changes the fact table, the filtered
\* relation or the orders table, so each derived relation is what its helper
\* returns on the sources as they are after any of the calls, in any order.
C10_SourcesUnchanged ==
    /\ [][(pc = "filtered" /\ done' # done) =>
           (/\ all_df' = all_df
            /\ main_df' = main_df
            /\ orders_df' = orders_df)]_vars
    /\ []("daily" \in done => daily_orders_df = create_daily_orders_df(main_df))
    /\ []("category" \in done =>
              sum_order_items_df = create_sum_order_items_df(main_df))
    /\ []("state" \in done => bystate_df = create_bystate_df(main_df))
    /\ []("rfm" \in done => rfm_df = create_rfm_df(main_df, orders_df))

C10_Witness ==
    /\ done = Transforms
    /\ Len(main_df) > 0
    /\ Len(orders_df) > 0
    /\ \E j \in DOMAIN rfm_df : rfm_df[j].recency.kind = "days"

====
